---- MODULE Spec2Model ----
(***************************************************************************)
(* A model of streamlit_app.py: the credential store (users.db, reached    *)
(* through short-lived sqlite3 connections), the page/session controller   *)
(* of main(), the cleaning pipeline clean_data and the chart builder       *)
(* create_visualization.                                                   *)
(*                                                                         *)
(* Spec        sessions pressing buttons, with register_user / verify_user *)
(*             split at every access to the shared database;               *)
(* SpecRender  the same render cycle started from an arbitrary session     *)
(*             state (the guard of lines 500-504 read as a function);      *)
(* SpecClean   clean_data applied to every small dataset;                  *)
(* SpecChart   create_visualization applied to every small request.        *)
(***************************************************************************)
EXTENDS Integers, Sequences, FiniteSets, TLC

VARIABLES
    users,       \* the rows of table users, in insertion order
    wlock,       \* the session whose connection holds the write lock, or NoOne
    registered,  \* history: username -> the password of its successful registration
    page,        \* st.session_state.page, per session
    logged_in,   \* st.session_state.logged_in
    username,    \* st.session_state.username
    navbar,      \* the navigation bar the last cycle rendered: "in", "out" or "none"
    shown,       \* what the last cycle's page dispatch rendered
    pc,          \* where the session's running cycle stands inside a store call
    call,        \* the arguments of the store call this cycle makes, if any
    ret,         \* how this cycle's store call ended
    owed,        \* history: a page a press set that its own cycle did not render
    df,                \* the uploaded frame, as load_data parsed it
    cleaning_options,  \* the multiselect's value, in selection order
    missing_strategy,  \* the selectbox of the handle_missing step
    scaling_method,    \* the selectbox of the normalize_data step
    cleaned,           \* what clean_data returned: status, cleaned_df, changes
    request,           \* the arguments of create_visualization
    fig                \* what create_visualization returned, and whether st.error ran

storeVars == <<users, wlock, registered>>
cleanVars == <<df, cleaning_options, missing_strategy, scaling_method, cleaned>>
chartVars == <<request, fig>>
sessVars  == <<page, logged_in, username, navbar, shown, pc, call, ret, owed>>

(***************************************************************************)
(* Small input sets.                                                       *)
(***************************************************************************)
Sessions  == {"s1", "s2"}
Usernames == {"alice", "bob"}
Passwords == {"short", "password1", "password2"}
NoneStr   == "None"
NoOne     == "free"

Pages == {"Home", "Login", "Register", "Data Visualization"}

MinPasswordLen == 8

TRUE_  == "True"
FALSE_ == "False"
ErrOpen   == "OperationalError: unable to open database file"
ErrLocked == "OperationalError: database is locked"
StorageErrors == {ErrOpen, ErrLocked}

NoCall == [fn |-> "none", username |-> NoneStr, password |-> NoneStr]

\* What a user can type into the text inputs of the Login and Register pages.
UsernameInputs == Usernames \cup {""}
PasswordInputs == Passwords \cup {""}

(***************************************************************************)
(* hash_password: sha256(password).hexdigest().  The digest is kept        *)
(* symbolic; distinct passwords have distinct digests.                     *)
(***************************************************************************)
\* (a digest that does not depend on the password)
HashConstant(password) == [sha256 |-> "e3b0c442"]

hash_password(password) == [sha256 |-> password]

(***************************************************************************)
(* The table users(username TEXT PRIMARY KEY, password TEXT NOT NULL).     *)
(***************************************************************************)
RowsOf(u) == {i \in 1..Len(users) : users[i].username = u}

\* (a table declared without the PRIMARY KEY)
NoPrimaryKey(u) == FALSE

\* The PRIMARY KEY constraint: an INSERT of a username already in the table fails.
PrimaryKeyViolated(u) == RowsOf(u) # {}

\* SELECT password FROM users WHERE username = ? ; fetchone(): the first matching
\* row as a 1-tuple, or the empty tuple for Python's None.
fetchone(u) ==
    IF RowsOf(u) = {} THEN <<>>
    ELSE <<users[CHOOSE i \in RowsOf(u) : \A j \in RowsOf(u) : i <= j].password>>

\* result and result[0] == hash_password(password)
PasswordMatches(result, password) ==
    result # <<>> /\ result[1] = hash_password(password)

(***************************************************************************)
(* The navigation bar of main().                                           *)
(***************************************************************************)
NavKeys(bar) ==
    CASE bar = "in"  -> {"home_button", "data_viz_button", "logout_button"}
      [] bar = "out" -> {"home_button", "login_button", "register_button"}
      [] OTHER       -> {}

\* The buttons on screen after the session's last cycle.
Visible(s) ==
    NavKeys(navbar[s])
      \cup (IF shown[s] = "Login" THEN {"login_submit_button"} ELSE {})
      \cup (IF shown[s] = "Register" THEN {"register_submit_button"} ELSE {})

\* (a Logout that leaves st.session_state.page as it is)
NavBarLogoutKeepsPage(li, un, pg, key) ==
    LET st == [logged_in |-> li, username |-> un, page |-> pg]
    IN  IF li
        THEN CASE key = "home_button"     -> [st EXCEPT !.page = "Home"]
               [] key = "data_viz_button" -> [st EXCEPT !.page = "Data Visualization"]
               [] key = "logout_button"   ->
                    [logged_in |-> FALSE, username |-> NoneStr, page |-> pg]
               [] OTHER -> st
        ELSE CASE key = "home_button"     -> [st EXCEPT !.page = "Home"]
               [] key = "login_button"    -> [st EXCEPT !.page = "Login"]
               [] key = "register_button" -> [st EXCEPT !.page = "Register"]
               [] OTHER -> st

\* The session keys after the navigation bar handled the pressed key: a button
\* returns True only in the bar that renders it.
NavBar(li, un, pg, key) ==
    LET st == [logged_in |-> li, username |-> un, page |-> pg]
    IN  IF li
        THEN CASE key = "home_button"     -> [st EXCEPT !.page = "Home"]
               [] key = "data_viz_button" -> [st EXCEPT !.page = "Data Visualization"]
               [] key = "logout_button"   ->
                    [logged_in |-> FALSE, username |-> NoneStr, page |-> "Home"]
               [] OTHER -> st
        ELSE CASE key = "home_button"     -> [st EXCEPT !.page = "Home"]
               [] key = "login_button"    -> [st EXCEPT !.page = "Login"]
               [] key = "register_button" -> [st EXCEPT !.page = "Register"]
               [] OTHER -> st

\* (the dispatch without the logged_in test of line 501)
DispatchNoGuard(pg, li) ==
    CASE pg = "Home" -> "Home"
      [] pg = "Login" -> "Login"
      [] pg = "Register" -> "Register"
      [] pg = "Data Visualization" -> "Data Visualization"
      [] OTHER -> "nothing"

\* "Display the selected page": what the cycle renders below the bar.
Dispatch(pg, li) ==
    CASE pg = "Home" -> "Home"
      [] pg = "Login" -> "Login"
      [] pg = "Register" -> "Register"
      [] pg = "Data Visualization" ->
            IF li THEN "Data Visualization" ELSE "Warning"
      [] OTHER -> "nothing"

\* The page a cycle still owes the user: one a press set without it being rendered.
Owed(set, pg, sh) == IF set /\ sh # pg THEN pg ELSE "none"

(***************************************************************************)
(* A render cycle that makes no store call: one run of main().             *)
(***************************************************************************)
\* The cycle up to and including the page dispatch, for pressed key `key`.
Render(s, key) ==
    LET st == NavBar(logged_in[s], username[s], page[s], key)
    IN  /\ logged_in' = [logged_in EXCEPT ![s] = st.logged_in]
        /\ username'  = [username EXCEPT ![s] = st.username]
        /\ page'      = [page EXCEPT ![s] = st.page]
        /\ navbar'    = [navbar EXCEPT ![s] = IF logged_in[s] THEN "in" ELSE "out"]
        /\ shown'     = [shown EXCEPT ![s] = Dispatch(st.page, st.logged_in)]
        /\ owed'      = [owed EXCEPT ![s] =
                            Owed(key \in NavKeys(IF logged_in[s] THEN "in" ELSE "out"),
                                 st.page, Dispatch(st.page, st.logged_in))]

\* A rerun no button started (the first load, an edited text input).
Rerun(s) ==
    /\ pc[s] = "idle"
    /\ Render(s, "none")
    /\ call' = [call EXCEPT ![s] = NoCall]
    /\ ret' = [ret EXCEPT ![s] = "none"]
    /\ UNCHANGED <<pc, storeVars>>

\* A press of one of the navigation buttons on screen.
PressNav(s, key) ==
    /\ pc[s] = "idle"
    /\ key \in NavKeys(navbar[s])
    /\ Render(s, key)
    /\ call' = [call EXCEPT ![s] = NoCall]
    /\ ret' = [ret EXCEPT ![s] = "none"]
    /\ UNCHANGED <<pc, storeVars>>

\* create_users_table() cannot open users.db: the cycle ends in its traceback.
CycleDbFail(s) ==
    /\ pc[s] = "idle"
    /\ navbar' = [navbar EXCEPT ![s] = "none"]
    /\ shown'  = [shown EXCEPT ![s] = "Traceback"]
    /\ call' = [call EXCEPT ![s] = NoCall]
    /\ ret' = [ret EXCEPT ![s] = "none"]
    /\ UNCHANGED <<page, logged_in, username, owed, pc, storeVars>>

(***************************************************************************)
(* login_page: the Login button.                                           *)
(***************************************************************************)
\* The press reaches login_page only when this cycle dispatches to it.
PressLogin(s, u, p) ==
    /\ pc[s] = "idle"
    /\ "login_submit_button" \in Visible(s)
    /\ Render(s, "login_submit_button")
    /\ IF Dispatch(page[s], logged_in[s]) = "Login" /\ u # "" /\ p # ""
       THEN /\ pc' = [pc EXCEPT ![s] = "ver_connect"]
            /\ call' = [call EXCEPT ![s] =
                          [fn |-> "verify_user", username |-> u, password |-> p]]
            /\ ret' = [ret EXCEPT ![s] = "none"]
       ELSE /\ call' = [call EXCEPT ![s] = NoCall]
            /\ ret' = [ret EXCEPT ![s] = "none"]
            /\ UNCHANGED pc
    /\ UNCHANGED storeVars

\* sqlite3.connect('users.db') in verify_user.
VerConnect(s) ==
    /\ pc[s] = "ver_connect"
    /\ pc' = [pc EXCEPT ![s] = "ver_select"]
    /\ UNCHANGED <<page, logged_in, username, navbar, shown, call, ret, owed,
                   storeVars>>

\* The connect raises: nothing in verify_user or login_page catches it.
VerConnectFail(s) ==
    /\ pc[s] = "ver_connect"
    /\ pc' = [pc EXCEPT ![s] = "idle"]
    /\ ret' = [ret EXCEPT ![s] = ErrOpen]
    /\ UNCHANGED <<page, logged_in, username, navbar, shown, call, owed,
                   storeVars>>

\* SELECT, fetchone, close, the comparison, and the rest of the Login handler.
VerSelect(s) ==
    /\ pc[s] = "ver_select"
    /\ pc' = [pc EXCEPT ![s] = "idle"]
    /\ IF PasswordMatches(fetchone(call[s].username), call[s].password)
       THEN /\ ret' = [ret EXCEPT ![s] = TRUE_]
            /\ logged_in' = [logged_in EXCEPT ![s] = TRUE]
            /\ username' = [username EXCEPT ![s] = call[s].username]
            /\ page' = [page EXCEPT ![s] = "Data Visualization"]
            /\ owed' = [owed EXCEPT ![s] = Owed(TRUE, "Data Visualization", shown[s])]
       ELSE /\ ret' = [ret EXCEPT ![s] = FALSE_]
            /\ UNCHANGED <<logged_in, username, page, owed>>
    /\ UNCHANGED <<navbar, shown, call, storeVars>>

(***************************************************************************)
(* registration_page: the Register button.                                 *)
(***************************************************************************)
PressRegister(s, u, p, c) ==
    /\ pc[s] = "idle"
    /\ "register_submit_button" \in Visible(s)
    /\ Render(s, "register_submit_button")
    /\ IF /\ Dispatch(page[s], logged_in[s]) = "Register"
          /\ u # "" /\ p # "" /\ c # ""
          /\ p = c
          /\ Len(p) >= MinPasswordLen
       THEN /\ pc' = [pc EXCEPT ![s] = "reg_connect"]
            /\ call' = [call EXCEPT ![s] =
                          [fn |-> "register_user", username |-> u, password |-> p]]
            /\ ret' = [ret EXCEPT ![s] = "none"]
       ELSE /\ call' = [call EXCEPT ![s] = NoCall]
            /\ ret' = [ret EXCEPT ![s] = "none"]
            /\ UNCHANGED pc
    /\ UNCHANGED storeVars

\* sqlite3.connect('users.db') in register_user.
RegConnect(s) ==
    /\ pc[s] = "reg_connect"
    /\ pc' = [pc EXCEPT ![s] = "reg_insert"]
    /\ UNCHANGED <<page, logged_in, username, navbar, shown, call, ret, owed,
                   storeVars>>

\* The connect raises, before the try block.
RegConnectFail(s) ==
    /\ pc[s] = "reg_connect"
    /\ pc' = [pc EXCEPT ![s] = "idle"]
    /\ ret' = [ret EXCEPT ![s] = ErrOpen]
    /\ UNCHANGED <<page, logged_in, username, navbar, shown, call, owed,
                   storeVars>>

\* c.execute(INSERT ...): the statement takes the write lock, then either fails on
\* the PRIMARY KEY (IntegrityError) or leaves its row pending until the commit.
RegInsert(s) ==
    /\ pc[s] = "reg_insert"
    /\ wlock = NoOne
    /\ wlock' = s
    /\ pc' = [pc EXCEPT ![s] = IF PrimaryKeyViolated(call[s].username)
                                THEN "reg_integrity" ELSE "reg_commit"]
    /\ UNCHANGED <<users, registered, page, logged_in, username, navbar, shown,
                   call, ret, owed>>

\* Another connection keeps the write lock past the connection's timeout: the
\* INSERT raises OperationalError, which except sqlite3.IntegrityError lets through.
RegInsertBusy(s) ==
    /\ pc[s] = "reg_insert"
    /\ wlock \notin {NoOne, s}
    /\ pc' = [pc EXCEPT ![s] = "idle"]
    /\ ret' = [ret EXCEPT ![s] = ErrLocked]
    /\ UNCHANGED <<page, logged_in, username, navbar, shown, call, owed,
                   storeVars>>

\* conn.commit(): the pending row becomes visible and the lock is released.
RegCommit(s) ==
    /\ pc[s] = "reg_commit"
    /\ users' = Append(users, [username |-> call[s].username,
                               password |-> hash_password(call[s].password)])
    /\ registered' = [registered EXCEPT ![call[s].username] = call[s].password]
    /\ wlock' = NoOne
    /\ pc' = [pc EXCEPT ![s] = "reg_close"]
    /\ UNCHANGED <<page, logged_in, username, navbar, shown, call, ret, owed>>

\* finally: conn.close(), the return, and the rest of the Register handler.
RegClose(s) ==
    /\ pc[s] \in {"reg_close", "reg_integrity"}
    /\ pc' = [pc EXCEPT ![s] = "idle"]
    /\ IF pc[s] = "reg_close"
       THEN /\ ret' = [ret EXCEPT ![s] = TRUE_]
            /\ page' = [page EXCEPT ![s] = "Login"]
            /\ owed' = [owed EXCEPT ![s] = Owed(TRUE, "Login", shown[s])]
            /\ UNCHANGED wlock
       ELSE /\ ret' = [ret EXCEPT ![s] = FALSE_]
            /\ wlock' = NoOne
            /\ UNCHANGED <<page, owed>>
    /\ UNCHANGED <<users, registered, logged_in, username, navbar, shown, call>>

(***************************************************************************)
(* Datasets: a DataFrame is its columns (each with a dtype) and its rows;  *)
(* a row maps each column to a cell.  A cell is NaN, a number or a text.   *)
(* A number is the fraction n/d in lowest terms or, with root set, the     *)
(* value sign(n) * sqrt(|n|/d): StandardScaler divides by a square root.   *)
(* Floating-point rounding is not modelled.                                *)
(***************************************************************************)
NaN == [kind |-> "nan"]
Text(s) == [kind |-> "str", s |-> s]

Abs(x) == IF x < 0 THEN -x ELSE x

RECURSIVE Gcd(_, _)
Gcd(a, b) == IF b = 0 THEN a ELSE Gcd(b, a % b)

\* The number n/d (d > 0), in lowest terms.
Q(n, d) ==
    LET g == Gcd(Abs(n), d)
    IN  [kind |-> "num", n |-> n \div g, d |-> d \div g, root |-> FALSE]

QAdd(x, y) == Q(x.n * y.d + y.n * x.d, x.d * y.d)
QSub(x, y) == Q(x.n * y.d - y.n * x.d, x.d * y.d)
QMul(x, y) == Q(x.n * y.n, x.d * y.d)
\* x / y for y > 0
QDiv(x, y) == Q(x.n * y.d, x.d * y.n)
QLeq(x, y) == x.n * y.d <= y.n * x.d

RECURSIVE QSum(_)
QSum(xs) == IF xs = <<>> THEN Q(0, 1) ELSE QAdd(Head(xs), QSum(Tail(xs)))

\* The rows at the indices in `keep`, in their order.
RECURSIVE Take(_, _, _)
Take(rows, keep, i) ==
    IF i > Len(rows) THEN <<>>
    ELSE (IF i \in keep THEN <<rows[i]>> ELSE <<>>) \o Take(rows, keep, i + 1)

\* The dtypes pandas gives the modelled columns: "n" is float64, "t" is object.
Dtype(c) == IF c = "n" THEN "float64" ELSE "object"

\* df.select_dtypes(include=[np.number]).columns.tolist()
get_numeric_columns(d) == SelectSeq(d.columns, LAMBDA c : Dtype(c) = "float64")

Range(seq) == {seq[i] : i \in 1..Len(seq)}

\* df.isnull().sum().sum()
isnull_sum(d) ==
    Cardinality({<<i, c>> \in (1..Len(d.rows)) \X Range(d.columns) : d.rows[i][c] = NaN})

\* df.drop_duplicates(): a row equal to an earlier row is dropped (NaN equals NaN).
drop_duplicates(d) ==
    [d EXCEPT !.rows =
        Take(d.rows, {i \in 1..Len(d.rows) : \A j \in 1..(i - 1) : d.rows[j] # d.rows[i]}, 1)]

\* df.dropna(): a row with a missing cell in any column is dropped.
dropna(d) ==
    [d EXCEPT !.rows =
        Take(d.rows, {i \in 1..Len(d.rows) : \A c \in Range(d.columns) : d.rows[i][c] # NaN}, 1)]

\* The non-missing values of column c, in row order.
RECURSIVE Values(_, _, _)
Values(rows, c, i) ==
    IF i > Len(rows) THEN <<>>
    ELSE (IF rows[i][c] # NaN THEN <<rows[i][c]>> ELSE <<>>) \o Values(rows, c, i + 1)

\* Series.mean(): NaN is skipped; the mean of no value is NaN.
mean(xs) == IF xs = <<>> THEN NaN ELSE QDiv(QSum(xs), Q(Len(xs), 1))

RECURSIVE Insert(_, _)
Insert(x, sorted) ==
    IF sorted = <<>> THEN <<x>>
    ELSE IF QLeq(x, Head(sorted)) THEN <<x>> \o sorted
    ELSE <<Head(sorted)>> \o Insert(x, Tail(sorted))

RECURSIVE Sort(_)
Sort(xs) == IF xs = <<>> THEN <<>> ELSE Insert(Head(xs), Sort(Tail(xs)))

\* Series.median(): NaN is skipped; the median of no value is NaN.
median(xs) ==
    LET s == Sort(xs)
        k == Len(xs)
    IN  IF k = 0 THEN NaN
        ELSE IF k % 2 = 1 THEN s[(k + 1) \div 2]
        ELSE QDiv(QAdd(s[k \div 2], s[k \div 2 + 1]), Q(2, 1))

\* df[col] = df[col].fillna(value): filling with NaN fills nothing.
fillna(d, c, value) ==
    [d EXCEPT !.rows =
        [i \in 1..Len(d.rows) |->
            IF d.rows[i][c] = NaN THEN [d.rows[i] EXCEPT ![c] = value] ELSE d.rows[i]]]

\* The value lines 109-114 fill column values xs with.
FillValue(strategy, xs) ==
    CASE strategy = "Mean imputation" -> mean(xs)
      [] strategy = "Median imputation" -> median(xs)
      [] OTHER -> Q(0, 1)

\* df[col].isnull().any()
isnull_any(d, c) == \E i \in 1..Len(d.rows) : d.rows[i][c] = NaN

\* The loop of lines 107-114 over the numeric columns cs.
RECURSIVE Impute(_, _, _)
Impute(d, cs, strategy) ==
    IF cs = <<>> THEN d
    ELSE Impute(IF isnull_any(d, Head(cs))
                THEN fillna(d, Head(cs), FillValue(strategy, Values(d.rows, Head(cs), 1)))
                ELSE d,
                Tail(cs), strategy)

\* Lines 101-118: the handle_missing step on frame d with log `changes`.
handle_missing(d, changes, strategy) ==
    LET initial_missing == isnull_sum(d)
        out == IF strategy = "Drop rows" THEN dropna(d)
               ELSE Impute(d, get_numeric_columns(d), strategy)
        final_missing == isnull_sum(out)
    IN  [df |-> out,
         changes |-> IF initial_missing > final_missing
                     THEN Append(changes, <<"Handled", initial_missing - final_missing,
                                            "missing values">>)
                     ELSE changes]

\* Lines 90-93: the remove_duplicates step.
remove_duplicates(d, changes) ==
    LET initial_rows == Len(d.rows)
        out == drop_duplicates(d)
    IN  [df |-> out,
         changes |-> IF Len(out.rows) # initial_rows
                     THEN Append(changes, <<"Removed", initial_rows - Len(out.rows),
                                            "duplicate rows">>)
                     ELSE changes]

\* Sequence minimum / maximum of fractions.
QMin(xs) == Sort(xs)[1]
QMax(xs) == Sort(xs)[Len(xs)]

\* MinMaxScaler on one column: (x - min) / (max - min); a zero range scales by 1.
MinMaxCell(x, xs) ==
    IF x = NaN THEN NaN
    ELSE LET lo == QMin(xs)
             span == QSub(QMax(xs), lo)
         IN  IF span.n = 0 THEN QSub(x, lo) ELSE QDiv(QSub(x, lo), span)

\* The population variance StandardScaler fits (NaN skipped).
Variance(xs) ==
    LET m == mean(xs)
        sq == [i \in 1..Len(xs) |-> QMul(QSub(xs[i], m), QSub(xs[i], m))]
    IN  QDiv(QSum(sq), Q(Len(xs), 1))

\* StandardScaler on one column: (x - mean) / sqrt(var); a zero variance scales by 1.
StandardCell(x, xs) ==
    IF x = NaN THEN NaN
    ELSE LET dev == QSub(x, mean(xs))
             var == Variance(xs)
         IN  IF var.n = 0 \/ dev.n = 0 THEN dev
             ELSE LET z2 == QDiv(QMul(dev, dev), var)
                  IN  [kind |-> "num", n |-> IF dev.n < 0 THEN -z2.n ELSE z2.n,
                       d |-> z2.d, root |-> TRUE]

\* scaler.fit_transform on the numeric columns cs, written back into the frame.
RECURSIVE fit_transform(_, _, _)
fit_transform(d, cs, method) ==
    IF cs = <<>> THEN d
    ELSE LET c == Head(cs)
             xs == Values(d.rows, c, 1)
             scaled == [d EXCEPT !.rows =
                          [i \in 1..Len(d.rows) |->
                             [d.rows[i] EXCEPT ![c] =
                                IF method = "StandardScaler"
                                THEN StandardCell(d.rows[i][c], xs)
                                ELSE MinMaxCell(d.rows[i][c], xs)]]]
         IN  fit_transform(scaled, Tail(cs), method)

NoFrame == [columns |-> <<>>, rows |-> <<>>]

\* Lines 126-134: the normalize_data step.  sklearn refuses a frame of no rows
\* (ValueError: Found array with 0 sample(s)), which leaves clean_data.
normalize_data(d, changes, method) ==
    LET numeric_columns == get_numeric_columns(d)
    IN  IF numeric_columns = <<>> THEN [status |-> "ok", df |-> d, changes |-> changes]
        ELSE IF d.rows = <<>>
             THEN [status |-> "ValueError", df |-> NoFrame, changes |-> <<>>]
        ELSE [status |-> "ok",
              df |-> fit_transform(d, numeric_columns, method),
              changes |-> Append(changes, <<"Normalized", Len(numeric_columns),
                                            "numeric columns using", method>>)]

Selected(op, options) == op \in Range(options)

\* The three if-blocks of lines 89-134, each run when its flag is set.
Steps(d, dup, mis, norm, strategy, method) ==
    LET s0 == [df |-> d, changes |-> <<>>]
        s1 == IF dup THEN remove_duplicates(s0.df, s0.changes) ELSE s0
        s2 == IF mis THEN handle_missing(s1.df, s1.changes, strategy) ELSE s1
    IN  IF norm THEN normalize_data(s2.df, s2.changes, method)
        ELSE [status |-> "ok", df |-> s2.df, changes |-> s2.changes]

\* (the first two steps run in the order they were selected)
CleanSelectionOrder(d, options, strategy, method) ==
    LET pos(op) == CHOOSE i \in 1..Len(options) : options[i] = op
        norm == Selected("normalize_data", options)
    IN  IF /\ Selected("remove_duplicates", options)
           /\ Selected("handle_missing", options)
           /\ pos("handle_missing") < pos("remove_duplicates")
        THEN LET m == handle_missing(d, <<>>, strategy)
                 r == remove_duplicates(m.df, m.changes)
             IN  IF norm THEN normalize_data(r.df, r.changes, method)
                 ELSE [status |-> "ok", df |-> r.df, changes |-> r.changes]
        ELSE Steps(d, Selected("remove_duplicates", options),
                   Selected("handle_missing", options), norm,
                   strategy, method)

\* (remove_duplicates runs whether selected or not)
CleanAlwaysDedupes(d, options, strategy, method) ==
    Steps(d, TRUE, Selected("handle_missing", options),
          Selected("normalize_data", options), strategy, method)

\* clean_data(df, options) with the two selectbox values: the copy of df
\* after the selected steps with the change log, or the exception that leaves it.
clean_data(d, options, strategy, method) ==
    Steps(d, Selected("remove_duplicates", options),
          Selected("handle_missing", options),
          Selected("normalize_data", options),
          strategy, method)

(***************************************************************************)
(* The cleaning step of data_visualization_page on an uploaded frame.      *)
(***************************************************************************)
MaxRows == 3
NumValues == {1, 2}
TextValues == {"x"}
Schemas == {<<"n", "t">>, <<"t">>}

CellsOf(c) ==
    IF Dtype(c) = "float64" THEN {NaN} \cup {Q(v, 1) : v \in NumValues}
    ELSE {NaN} \cup {Text(v) : v \in TextValues}

FrameRows(cols) ==
    {r \in [Range(cols) -> UNION {CellsOf(c) : c \in Range(cols)}] :
        \A c \in Range(cols) : r[c] \in CellsOf(c)}

\* What the readers of load_data infer: a column is float64 when the file has
\* rows and the column holds no text (an all-empty column included), object
\* when it holds text or the file has a header and no rows.
Inferred(d) ==
    \A c \in Range(d.columns) :
        IF Dtype(c) = "float64" THEN d.rows # <<>>
        ELSE d.rows = <<>> \/ \E i \in 1..Len(d.rows) : d.rows[i][c] # NaN

Frames ==
    UNION {{d \in {[columns |-> cols, rows |-> rs] :
                     rs \in UNION {[1..k -> FrameRows(cols)] : k \in 0..MaxRows}} :
              Inferred(d)} :
           cols \in Schemas}

Operations == {"remove_duplicates", "handle_missing", "normalize_data"}

\* What the multiselect can return: the operations in the order they were selected.
Selections ==
    {sel \in UNION {[1..k -> Operations] : k \in 0..3} :
        \A i, j \in 1..Len(sel) : i # j => sel[i] # sel[j]}

MissingStrategies == {"Drop rows", "Mean imputation", "Median imputation", "Zero imputation"}
ScalingMethods == {"StandardScaler", "MinMaxScaler"}
NotAsked == "not asked"

InitClean ==
    /\ df \in Frames
    /\ cleaning_options = <<>>
    /\ missing_strategy = NotAsked
    /\ scaling_method = NotAsked
    /\ cleaned = [status |-> "not run", df |-> NoFrame, changes |-> <<>>]

\* cleaned_df, changes = clean_data(df, cleaning_options): a selectbox is asked
\* only inside the step that is selected.
DataCleaning(sel, ms, sm) ==
    /\ cleaned.status = "not run"
    /\ ms = NotAsked <=> ~Selected("handle_missing", sel)
    /\ sm = NotAsked <=> ~Selected("normalize_data", sel)
    /\ cleaning_options' = sel
    /\ missing_strategy' = ms
    /\ scaling_method' = sm
    /\ cleaned' = clean_data(df, sel, ms, sm)
    /\ UNCHANGED df

(***************************************************************************)
(* create_visualization.  plotly is outside the repository: a request      *)
(* carries, besides the arguments, whether plotly accepts the frame's data *)
(* for the chart asked for (dtypes, shapes, colours).                      *)
(***************************************************************************)
ChartTypes ==
    {"Bar Chart", "Line Chart", "Scatter Plot", "Box Plot", "Histogram", "Pie Chart",
     "Area Chart", "Violin Plot", "Heatmap", "3D Scatter Plot", "3D Surface Plot",
     "Bubble Chart", "Radar Chart", "Polar Chart", "Tree Map", "Sunburst Chart",
     "Funnel Chart", "Gantt Chart", "Candlestick Chart"}

OHLC == {"Open", "High", "Low", "Close"}

\* The columns each branch of lines 142-179 hands to plotly by name.
ColumnsUsed(r) ==
    CASE r.chart_type \in {"Heatmap", "3D Surface Plot"} -> {}
      [] r.chart_type = "Histogram" -> {r.x_col, r.color_col}
      [] r.chart_type = "Candlestick Chart" -> {r.x_col} \cup OHLC
      [] OTHER -> {r.x_col, r.y_col, r.color_col}

\* The try block of lines 142-189: "figure", or the exception it raises.
TryBlock(r) ==
    CASE r.chart_type \notin ChartTypes -> "UnboundLocalError"
      [] r.chart_type = "Candlestick Chart" ->
            IF ColumnsUsed(r) \subseteq r.columns THEN "figure" ELSE "KeyError"
      [] OTHER ->
            IF ~(ColumnsUsed(r) \subseteq r.columns \cup {NoneStr}) THEN "ValueError"
            ELSE IF r.accepted THEN "figure" ELSE "ValueError"

\* (except ValueError instead of except Exception)
CatchesValueErrorOnly(exc) == exc = "ValueError"

\* except Exception as e: every exception the try block can raise is one.
Catches(exc) == exc \in {"ValueError", "KeyError", "UnboundLocalError"}

\* create_visualization: the figure, or None after st.error, or the exception
\* that leaves the function.
create_visualization(r) ==
    LET out == TryBlock(r)
    IN  IF out = "figure" THEN [value |-> "figure", error |-> NoneStr]
        ELSE IF Catches(out) THEN [value |-> NoneStr, error |-> out]
        ELSE [value |-> "raised", error |-> out]

ChartFrames == {{"n", "t"}, {"n"} \cup OHLC}

Requests ==
    UNION {[columns : {cols},
            chart_type : ChartTypes \cup {"Word Cloud"},
            x_col : cols \cup {NoneStr, "absent"},
            y_col : cols \cup {NoneStr},
            color_col : cols \cup {NoneStr},
            accepted : BOOLEAN] : cols \in ChartFrames}

NoRequest ==
    [columns |-> {}, chart_type |-> NoneStr, x_col |-> NoneStr, y_col |-> NoneStr,
     color_col |-> NoneStr, accepted |-> FALSE]

InitChart ==
    /\ request \in Requests
    /\ fig = [value |-> "not run", error |-> NoneStr]

\* The "Generate Visualization" button: fig = create_visualization(...).
GenerateVisualization ==
    /\ fig.value = "not run"
    /\ fig' = create_visualization(request)
    /\ UNCHANGED request

(***************************************************************************)
(* The sessions and the store together.                                    *)
(***************************************************************************)
\* main(): the session keys a first run sets, on an empty table.
InitStore ==
    /\ users = <<>>
    /\ wlock = NoOne
    /\ registered = [u \in Usernames |-> NoneStr]

InitCycle ==
    /\ navbar = [s \in Sessions |-> "none"]
    /\ shown = [s \in Sessions |-> "nothing"]
    /\ pc = [s \in Sessions |-> "idle"]
    /\ call = [s \in Sessions |-> NoCall]
    /\ ret = [s \in Sessions |-> "none"]
    /\ owed = [s \in Sessions |-> "none"]

\* No file is uploaded.
NoUpload ==
    /\ df = NoFrame
    /\ cleaning_options = <<>>
    /\ missing_strategy = NotAsked
    /\ scaling_method = NotAsked
    /\ cleaned = [status |-> "not run", df |-> NoFrame, changes |-> <<>>]

\* No chart is asked for.
NoChart ==
    /\ request = NoRequest
    /\ fig = [value |-> "not run", error |-> NoneStr]

Init ==
    /\ InitStore
    /\ InitCycle
    /\ NoUpload
    /\ NoChart
    /\ page = [s \in Sessions |-> "Home"]
    /\ logged_in = [s \in Sessions |-> FALSE]
    /\ username = [s \in Sessions |-> NoneStr]

Next ==
    /\ UNCHANGED <<cleanVars, chartVars>>
    /\ \E s \in Sessions :
        \/ Rerun(s)
        \/ \E key \in NavKeys("in") \cup NavKeys("out") : PressNav(s, key)
        \/ CycleDbFail(s)
        \/ \E u \in UsernameInputs, p \in PasswordInputs : PressLogin(s, u, p)
        \/ VerConnect(s)
        \/ VerConnectFail(s)
        \/ VerSelect(s)
        \/ \E u \in UsernameInputs, p \in PasswordInputs, c \in PasswordInputs :
              PressRegister(s, u, p, c)
        \/ RegConnect(s)
        \/ RegConnectFail(s)
        \/ RegInsert(s)
        \/ RegInsertBusy(s)
        \/ RegCommit(s)
        \/ RegClose(s)

vars == <<users, wlock, registered, page, logged_in, username, navbar, shown,
          pc, call, ret, owed, df, cleaning_options, missing_strategy, scaling_method,
          cleaned, request, fig>>

Spec == Init /\ [][Next]_vars

\* The cycles of main() that make no store call, started from any value of the
\* three session keys: the dispatch of lines 493-504 on every (page, logged_in).
InitRender ==
    /\ InitStore
    /\ InitCycle
    /\ NoUpload
    /\ NoChart
    /\ page \in [Sessions -> Pages]
    /\ logged_in \in [Sessions -> BOOLEAN]
    /\ username \in [Sessions -> Usernames \cup {NoneStr}]

NextRender ==
    /\ UNCHANGED <<cleanVars, chartVars>>
    /\ \E s \in Sessions :
        \/ Rerun(s)
        \/ \E key \in NavKeys("in") \cup NavKeys("out") : PressNav(s, key)
        \/ CycleDbFail(s)

SpecRender == InitRender /\ [][NextRender]_vars

\* clean_data on every small frame (the sessions and the store stand still).
InitIdle ==
    /\ InitStore
    /\ InitCycle
    /\ page = [s \in Sessions |-> "Home"]
    /\ logged_in = [s \in Sessions |-> FALSE]
    /\ username = [s \in Sessions |-> NoneStr]

NextClean ==
    /\ cleaned.status = "not run"
    /\ UNCHANGED <<storeVars, sessVars, chartVars>>
    /\ \E sel \in Selections, ms \in MissingStrategies \cup {NotAsked},
          sm \in ScalingMethods \cup {NotAsked} : DataCleaning(sel, ms, sm)

InitCleanPage == InitIdle /\ NoChart /\ InitClean

SpecClean == InitCleanPage /\ [][NextClean]_vars

\* create_visualization on every small request.
NextChart ==
    /\ UNCHANGED <<storeVars, sessVars, cleanVars>>
    /\ GenerateVisualization

InitChartPage == InitIdle /\ NoUpload /\ InitChart

SpecChart == InitChartPage /\ [][NextChart]_vars

\* A step in which session s runs main() through its page dispatch.
RendersCycle(s) ==
    \/ Rerun(s)
    \/ \E key \in NavKeys("in") \cup NavKeys("out") : PressNav(s, key)
    \/ \E u \in UsernameInputs, p \in PasswordInputs : PressLogin(s, u, p)
    \/ \E u \in UsernameInputs, p \in PasswordInputs, c \in PasswordInputs :
          PressRegister(s, u, p, c)

\* A step that ends a store call of session s.
Returns(s, fn) == call[s].fn = fn /\ pc[s] # "idle" /\ pc'[s] = "idle"

(***************************************************************************)
(* C1.  Rows are never updated or deleted, so the table only grows; an     *)
(* INSERT is accepted exactly when the table holds no row of the username, *)
(* the accepted call stores hash(p) and returns True, and a call that      *)
(* finds the username returns False and changes no row.                    *)
(***************************************************************************)
C1_Step(s) ==
    LET u == call[s].username
        row == [username |-> u, password |-> hash_password(call[s].password)]
    IN  /\ (pc[s] = "reg_insert" /\ pc'[s] \notin {"reg_insert", "idle"})
            => (pc'[s] = "reg_commit" <=> RowsOf(u) = {})
        /\ (pc[s] = "reg_commit" /\ pc'[s] # "reg_commit")
            => (pc'[s] = "reg_close" /\ users' = Append(users, row))
        /\ (pc[s] = "reg_close" /\ pc'[s] # "reg_close")
            => /\ ret'[s] = TRUE_ /\ users' = users
               /\ \E i \in RowsOf(u) : users[i] = row
        /\ (pc[s] = "reg_integrity" /\ pc'[s] # "reg_integrity")
            => ret'[s] = FALSE_ /\ users' = users /\ RowsOf(u) # {}

C1_RegisterOnce ==
    [][ /\ Len(users') >= Len(users)
        /\ \A i \in 1..Len(users) : users'[i] = users[i]
        /\ \A u \in Usernames : Cardinality(RowsOf(u)) <= 1
        /\ \A s \in Sessions : C1_Step(s) ]_vars

\* Two sessions registered the same username with different passwords: one got
\* True, the other False, and the row is the first one's.
C1_Witness ==
    \E s, t \in Sessions :
        /\ call[s].fn = "register_user" /\ call[t].fn = "register_user"
        /\ call[s].username = call[t].username
        /\ call[s].password # call[t].password
        /\ ret[s] = TRUE_ /\ ret[t] = FALSE_
        /\ fetchone(call[s].username) = <<hash_password(call[s].password)>>
        /\ Len(users) = 2

(***************************************************************************)
(* C2.  verify_user returns True exactly when the username has a row and   *)
(* the password is the one of that username's successful registration; no  *)
(* step of verify_user changes the table.                                  *)
(***************************************************************************)
C2_VerifyIff ==
    [][ \A s \in Sessions :
          /\ Returns(s, "verify_user") /\ ret'[s] \notin StorageErrors
              => (ret'[s] = TRUE_ <=>
                    /\ RowsOf(call[s].username) # {}
                    /\ registered[call[s].username] = call[s].password)
          /\ (pc[s] \in {"ver_connect", "ver_select"} /\ pc'[s] # pc[s])
              => users' = users ]_vars

\* One session verified a registered username with its password, another with a
\* password that is not the registered one.
C2_Witness ==
    \E s, t \in Sessions :
        /\ call[s].fn = "verify_user" /\ call[t].fn = "verify_user"
        /\ call[s].username = call[t].username
        /\ RowsOf(call[s].username) # {}
        /\ ret[s] = TRUE_ /\ ret[t] = FALSE_

(***************************************************************************)
(* C3.  Of the sessions that called register_user with one username (and   *)
(* opened their connection), at most one got True, every other got False,  *)
(* and the table holds exactly one row of that username, with the hash of  *)
(* the successful caller's password.                                       *)
(***************************************************************************)
C3_ConcurrentRegister ==
    \A s, t \in Sessions :
        ( /\ s # t
          /\ call[s].fn = "register_user" /\ call[t].fn = "register_user"
          /\ call[s].username = call[t].username
          /\ pc[s] = "idle" /\ pc[t] = "idle"
          /\ ret[s] # ErrOpen /\ ret[t] # ErrOpen )
        => /\ {ret[s], ret[t]} \subseteq {TRUE_, FALSE_}
           /\ ~(ret[s] = TRUE_ /\ ret[t] = TRUE_)
           /\ Cardinality(RowsOf(call[s].username)) = 1
           /\ ret[s] = TRUE_
                => fetchone(call[s].username) = <<hash_password(call[s].password)>>

(***************************************************************************)
(* C4.  Every register_user / verify_user call ends by returning True or   *)
(* False, a storage error included (no exception leaves the call), and a   *)
(* call that did not succeed leaves page and logged_in as they were.       *)
(***************************************************************************)
C4_ErrorsAreFalse ==
    [][ \A s \in Sessions :
          (pc[s] # "idle" /\ pc'[s] = "idle")
          => /\ ret'[s] \in {TRUE_, FALSE_}
             /\ ret'[s] # TRUE_
                  => page'[s] = page[s] /\ logged_in'[s] = logged_in[s] ]_vars

(***************************************************************************)
(* C5.  A cycle renders the Data Visualization content only with logged_in *)
(* true; a cycle that dispatches on page "Data Visualization" with         *)
(* logged_in false renders the warning instead, and leaves page and        *)
(* logged_in as they were.                                                 *)
(***************************************************************************)
C5_GuardedDataViz ==
    [][ \A s \in Sessions :
          RendersCycle(s)
          => /\ shown'[s] = "Data Visualization" => logged_in'[s]
             /\ (page'[s] = "Data Visualization" /\ ~logged_in'[s])
                  => /\ shown'[s] = "Warning"
                     /\ page'[s] = page[s]
                     /\ logged_in'[s] = logged_in[s] ]_vars

\* A cycle has rendered the warning for a logged-out session on the page.
C5_Witness ==
    \E s \in Sessions :
        /\ page[s] = "Data Visualization" /\ ~logged_in[s]
        /\ shown[s] = "Warning" /\ navbar[s] = "out"

(***************************************************************************)
(* C6.  The page a button press sets is rendered by the cycle that handles *)
(* the press or, failing that, by the session's next cycle; page changes   *)
(* only in a step that handles a press, and stays one of the four pages.   *)
(***************************************************************************)
C6_PressShowsPage ==
    [][ \A s \in Sessions :
          /\ (owed[s] # "none" /\ RendersCycle(s)) => shown'[s] = owed[s]
          /\ page'[s] # page[s]
               => \/ \E key \in NavKeys("in") \cup NavKeys("out") : PressNav(s, key)
                  \/ VerSelect(s)
                  \/ RegClose(s)
          /\ page'[s] \in Pages ]_vars

(***************************************************************************)
(* C7.  The outcome of clean_data (frame and change log, or the exception) *)
(* is the same for every order of selecting the same operations: whatever  *)
(* the selection, it is the outcome of selecting the same operations in    *)
(* the order duplicates, missing values, normalization.  The log           *)
(* entries stand in the order duplicates, missing values, normalization;   *)
(* an operation not selected leaves no log entry and no change: without    *)
(* remove_duplicates (and without "Drop rows") no row goes, without        *)
(* handle_missing every missing cell and every text cell stays, without    *)
(* normalize_data every non-missing cell keeps its value.                  *)
(***************************************************************************)
LogRank(entry) ==
    CASE entry[1] = "Removed" -> 1 [] entry[1] = "Handled" -> 2 [] OTHER -> 3

HasEntry(kind) == \E i \in 1..Len(cleaned.changes) : cleaned.changes[i][1] = kind

\* Row r2 is row r1 up to the values of its non-missing numeric cells.
SameButScaled(r1, r2) ==
    \A c \in DOMAIN r1 :
        /\ r2[c] = NaN <=> r1[c] = NaN
        /\ Dtype(c) # "float64" => r2[c] = r1[c]

\* Row r2 is row r1 up to the cells that were missing in r1.
SameButFilled(r1, r2) == \A c \in DOMAIN r1 : r1[c] # NaN => r2[c] = r1[c]

\* The selected operations, selected in the order the multiselect lists them.
ListedOrder(options) ==
    SelectSeq(<<"remove_duplicates", "handle_missing", "normalize_data">>,
              LAMBDA op : Selected(op, options))

C7_Unselected ==
    LET dup == Selected("remove_duplicates", cleaning_options)
        mis == Selected("handle_missing", cleaning_options)
        norm == Selected("normalize_data", cleaning_options)
        out == cleaned.df.rows
    IN  /\ ~dup => /\ ~HasEntry("Removed")
                   /\ missing_strategy # "Drop rows" => Len(out) = Len(df.rows)
        /\ ~mis => /\ ~HasEntry("Handled")
                   /\ \A i \in 1..Len(out) :
                         \E j \in 1..Len(df.rows) : SameButScaled(df.rows[j], out[i])
        /\ ~norm => /\ ~HasEntry("Normalized")
                    /\ \A i \in 1..Len(out) :
                          \E j \in 1..Len(df.rows) : SameButFilled(df.rows[j], out[i])

C7_FixedOrder ==
    cleaned.status # "not run"
    => /\ clean_data(df, ListedOrder(cleaning_options),
                       missing_strategy, scaling_method) = cleaned
       /\ \A i, j \in 1..Len(cleaned.changes) :
             i < j => LogRank(cleaned.changes[i]) < LogRank(cleaned.changes[j])
       /\ cleaned.status = "ok" => C7_Unselected

\* All three operations, selected last-to-first, each with an entry in the log.
C7_Witness ==
    /\ cleaning_options = <<"normalize_data", "handle_missing", "remove_duplicates">>
    /\ cleaned.status = "ok"
    /\ Len(cleaned.changes) = 3
    /\ missing_strategy = "Mean imputation"

(***************************************************************************)
(* C8.  clean_data with nothing selected returns the input's rows, columns *)
(* and cells (duplicate rows and missing cells included) with an empty     *)
(* change log, and the input frame is as it was.                           *)
(***************************************************************************)
C8_NothingSelected ==
    [][ (cleaned.status = "not run" /\ cleaned'.status # "not run"
           /\ cleaning_options' = <<>>)
        => /\ cleaned' = [status |-> "ok", df |-> df, changes |-> <<>>]
           /\ df' = df ]_vars

\* Nothing selected, on a frame with a duplicate row and a missing cell.
C8_Witness ==
    /\ cleaned.status = "ok"
    /\ cleaning_options = <<>>
    /\ \E i, j \in 1..Len(df.rows) : i # j /\ df.rows[i] = df.rows[j]
    /\ isnull_sum(df) > 0
    /\ cleaned.df = df

(***************************************************************************)
(* C9.  After clean_data with handle_missing selected and "Mean            *)
(* imputation", no numeric column holds a missing cell, and (no row being  *)
(* dropped) every non-numeric column is cell for cell the input's.         *)
(***************************************************************************)
C9_MeanImputation ==
    ( /\ cleaned.status = "ok"
      /\ Selected("handle_missing", cleaning_options)
      /\ missing_strategy = "Mean imputation" )
    => /\ \A i \in 1..Len(cleaned.df.rows) :
             \A c \in Range(get_numeric_columns(cleaned.df)) :
                cleaned.df.rows[i][c] # NaN
       /\ ~Selected("remove_duplicates", cleaning_options)
            => /\ Len(cleaned.df.rows) = Len(df.rows)
               /\ \A i \in 1..Len(df.rows) :
                     \A c \in Range(df.columns) :
                        Dtype(c) # "float64" => cleaned.df.rows[i][c] = df.rows[i][c]

(***************************************************************************)
(* C10.  create_visualization returns a figure, or reports the error with  *)
(* st.error and returns None; no exception leaves it, whatever the frame,  *)
(* the chart type (one outside the 19 included) and the columns given.     *)
(***************************************************************************)
C10_NeverRaises ==
    fig.value # "not run"
    => /\ fig.value \in {"figure", NoneStr}
       /\ fig.value = NoneStr <=> fig.error # NoneStr

\* A chart type outside the 19, with no x and no y: the error is reported.
C10_Witness ==
    /\ request.chart_type \notin ChartTypes
    /\ request.x_col = NoneStr /\ request.y_col = NoneStr
    /\ fig = [value |-> NoneStr, error |-> "UnboundLocalError"]

(***************************************************************************)
(* C11.  For Heatmap, 3D Surface Plot and Candlestick Chart, whether       *)
(* create_visualization returns a figure or None is the same for every x   *)
(* and y (the None the page passes for these kinds included), and          *)
(* Candlestick Chart returns a figure whenever the frame has the columns   *)
(* Open, High, Low and Close.                                              *)
(***************************************************************************)
FixedKinds == {"Heatmap", "3D Surface Plot", "Candlestick Chart"}

C11_FixedKindsIgnoreXY ==
    (fig.value # "not run" /\ request.chart_type \in FixedKinds)
    => /\ \A x \in request.columns \cup {NoneStr}, y \in request.columns \cup {NoneStr} :
             create_visualization([request EXCEPT !.x_col = x, !.y_col = y]).value
                = fig.value
       /\ (request.chart_type = "Candlestick Chart" /\ OHLC \subseteq request.columns)
             => fig.value = "figure"

(***************************************************************************)
(* C12.  In every reachable state of a session: page = "Data               *)
(* Visualization" only when logged_in; logged_in exactly when username is  *)
(* set, and username is set only by the step in which verify_user returned *)
(* True for it (so to a registered username); a press of Logout by a       *)
(* logged-in session sets logged_in False, username None and page "Home",  *)
(* and nothing else ends a login.                                          *)
(***************************************************************************)
C12_State(s) ==
    /\ page[s] = "Data Visualization" => logged_in[s]
    /\ logged_in[s] <=> username[s] # NoneStr
    /\ username[s] # NoneStr
          => username[s] \in Usernames /\ RowsOf(username[s]) # {}

C12_Step(s) ==
    /\ ((~logged_in[s] /\ logged_in'[s]) \/ username'[s] \notin {username[s], NoneStr})
          => /\ Returns(s, "verify_user")
             /\ ret'[s] = TRUE_
             /\ username'[s] = call[s].username
             /\ logged_in'[s]
    /\ (logged_in[s] /\ PressNav(s, "logout_button"))
          => ~logged_in'[s] /\ username'[s] = NoneStr /\ page'[s] = "Home"
    /\ (logged_in[s] /\ ~logged_in'[s]) => PressNav(s, "logout_button")

C12_SessionInvariant ==
    /\ [](\A s \in Sessions : C12_State(s))
    /\ [][\A s \in Sessions : C12_Step(s)]_vars

\* A session that logged in, went to Home and back, and is on the content page;
\* another that logged in and logged out.
C12_Witness ==
    \E s, t \in Sessions :
        /\ s # t
        /\ logged_in[s] /\ page[s] = "Data Visualization"
        /\ shown[s] = "Data Visualization" /\ username[s] \in Usernames
        /\ ~logged_in[t] /\ username[t] = NoneStr /\ page[t] = "Home"
        /\ navbar[t] = "in"

====
